---- MODULE Spec2Model ----
(***************************************************************************)
(* Model of app.py: the Excel -> JSON extractor (excel_to_json), the field *)
(* reorderer (rearrange_json_fields), the JSON -> Excel serializer         *)
(* (json_to_excel) and the Streamlit shell (main) with its session state.  *)
(*                                                                         *)
(* Text is a sequence of one-character strings, so that str.strip() is     *)
(* computed and not assumed.  A Python dict is a sequence of <<key,value>> *)
(* items in insertion order with unique keys.                              *)
(***************************************************************************)
EXTENDS Integers, Sequences, FiniteSets, TLC

VARIABLES
    phase,           \* which call of the function under study has returned
    uploaded_files,  \* argument of excel_to_json: the uploaded workbooks
    combined_data,   \* excel_to_json: the list it returns
    origin,          \* history: origin[i] = <<file, row>> that produced combined_data[i]
    messages,        \* st.info / st.success / st.warning / st.error calls, in order
    json_data,       \* argument of rearrange_json_fields and of json_to_excel
    rearranged_data, \* rearrange_json_fields: the list it returns
    again,           \* rearrange_json_fields applied to rearranged_data
    excel_data,      \* json_to_excel: the sheet written to the workbook
    session_state,   \* st.session_state: the slots json_data and rearranged_data
    last_converted,  \* history: result of the last conversion that gave records
    json_source_rearrange,  \* radio of the Rearrange tab
    json_source_excel,      \* radio of the JSON to Excel tab
    upload_json_rearrange,  \* file uploader of the Rearrange tab
    upload_json_excel,      \* file uploader of the JSON to Excel tab
    tab2_json_data,  \* main: the local json_data of the Rearrange tab
    tab3_json_data   \* main: the local json_data of the JSON to Excel tab

extractVars == <<uploaded_files, combined_data, origin, messages>>
recordVars == <<json_data, rearranged_data, again, excel_data>>
shellVars == <<session_state, last_converted, json_source_rearrange,
               json_source_excel, upload_json_rearrange, upload_json_excel,
               tab2_json_data, tab3_json_data>>

vars == <<phase, extractVars, recordVars, shellVars>>

----------------------------------------------------------------------------
(* Bounds of the inputs.                                                   *)

\* rows of the single uploaded table of the first input family
MaxRows == 5
\* number of uploaded files of the second input family
MaxFiles == 2
\* records in a list given to rearrange_json_fields or json_to_excel
MaxRecords == 2
\* keys of a partial record of such a list
MaxKeys == 2
\* data rows below the two header rows in a table of the second family
MaxBodyRows == 3

----------------------------------------------------------------------------
(* Text helpers.                                                           *)

Whitespace == {" ", "\t", "\n"}

RECURSIVE lstrip(_)
lstrip(s) ==
    IF s # <<>> /\ Head(s) \in Whitespace THEN lstrip(Tail(s)) ELSE s

RECURSIVE rstrip(_)
rstrip(s) ==
    IF s # <<>> /\ s[Len(s)] \in Whitespace
    THEN rstrip(SubSeq(s, 1, Len(s) - 1))
    ELSE s

\* str.strip()
strip(s) == rstrip(lstrip(s))

\* largest element of a non-empty sequence of numbers: max(...)
max(seq) == CHOOSE m \in {seq[i] : i \in 1..Len(seq)} :
                \A i \in 1..Len(seq) : seq[i] <= m

----------------------------------------------------------------------------
(* Cells.  A cell read by pandas is NaN (na), or a value with the text     *)
(* str() gives for it (s); bad marks a value whose str() raises.           *)

NaN == [na |-> TRUE, s |-> <<>>, bad |-> FALSE]
Text(s) == [na |-> FALSE, s |-> s, bad |-> FALSE]
Unprintable == [na |-> FALSE, s |-> <<>>, bad |-> TRUE]

\* Series.isna()
isna(cell) == cell.na

\* element of Series.astype(str): NaN becomes the text 'nan'
astype_str(cell) == IF cell.na THEN <<"n", "a", "n">> ELSE cell.s

\* element of Series.fillna(""): NaN becomes the empty text
fillna(cell) == IF cell.na THEN <<>> ELSE cell.s

----------------------------------------------------------------------------
(* excel_to_json                                                           *)

columns_to_capture == <<2, 3, 4, 5, 7, 8, 9>>

field_names == <<"Full Name", "Phone Number", "School Name",
                 "Designation - Level", "Email", "Region", "District">>

\* pd.read_excel(file, header=None): the grid, its rows labelled 0, 1, ...
read_excel(file) ==
    [index |-> [i \in 1..Len(file.rows) |-> i - 1],
     rows  |-> file.rows,
     ncols |-> file.ncols]

\* if len(df) > 2: df = df.iloc[2:]     (row labels are kept)
skip_header(df) ==
    IF Len(df.rows) > 2
    THEN [df EXCEPT !.index = SubSeq(df.index, 3, Len(df.index)),
                    !.rows  = SubSeq(df.rows, 3, Len(df.rows))]
    ELSE df

\* mutant of has_columns: the comparison off by one (<= for <)
has_columns_off_by_one(df) == max(columns_to_capture) <= df.ncols

\* max(columns_to_capture) < len(df.columns)
has_columns(df) == max(columns_to_capture) < df.ncols

\* df.iloc[:, columns_to_capture] raises IndexError for a position out of bounds
iloc_raises(df) == \E j \in 1..Len(columns_to_capture) :
                       columns_to_capture[j] >= df.ncols

\* one row of df.iloc[:, columns_to_capture]: the 7 selected cells, in order
selected(row) == [j \in 1..Len(columns_to_capture) |-> row[columns_to_capture[j] + 1]]

\* row.isna().all()
isna_all(row) == \A j \in 1..Len(row) : isna(row[j])

\* (row.astype(str).str.strip() == '').all()
blank_all(row) == \A j \in 1..Len(row) : strip(astype_str(row[j])) = <<>>

\* evaluating line 49 raises: isna().all() is False and some str() raises
is_empty_raises(row) ==
    ~isna_all(row) /\ \E j \in 1..Len(row) : row[j].bad

\* is_empty = row.isna().all() or (row.astype(str).str.strip() == '').all()
is_empty(row) == isna_all(row) \/ blank_all(row)

\* row.fillna("").to_dict(), the columns renamed to field_names
to_dict(row) == [j \in 1..Len(row) |-> <<field_names[j], fillna(row[j])>>]

\* the loop of lines 47-56 from position p of the sliced frame on
RECURSIVE scan(_, _, _, _)
scan(df, f, p, acc) ==
    IF p > Len(df.rows)
    THEN [acc EXCEPT !.outcome = "end"]
    ELSE LET row == selected(df.rows[p]) IN
         IF is_empty_raises(row)
         THEN [acc EXCEPT !.outcome = "raise"]
         ELSE IF is_empty(row)
         THEN [acc EXCEPT !.outcome = "break", !.at = df.index[p]]
         ELSE scan(df, f, p + 1,
                   [acc EXCEPT !.valid_records = Append(@, to_dict(row)),
                               !.origin = Append(@, <<f, df.index[p]>>)])

Msg(level, f, n) == [level |-> level, file |-> f, n |-> n]

\* the except clause, lines 63-66: two st.error calls
on_exception(st, f) ==
    [st EXCEPT !.messages = @ \o <<Msg("error", f, 0), Msg("error", f, 0)>>]

\* mutant of extend: the table's records are put in front of the list
extend_in_front(st, f, res) ==
    [st EXCEPT !.combined_data = res.valid_records \o @,
               !.origin = res.origin \o @,
               !.messages = @ \o
                   (IF res.outcome = "break"
                    THEN <<Msg("info", f, res.at)>> ELSE <<>>)
                   \o <<Msg("success", f, Len(res.valid_records))>>]

\* lines 58-59: combined_data.extend(valid_records); st.success(...)
extend(st, f, res) ==
    [st EXCEPT !.combined_data = @ \o res.valid_records,
               !.origin = @ \o res.origin,
               !.messages = @ \o
                   (IF res.outcome = "break"
                    THEN <<Msg("info", f, res.at)>> ELSE <<>>)
                   \o <<Msg("success", f, Len(res.valid_records))>>]

\* the else branch, line 61: st.warning(...)
too_few_columns(st, f) ==
    [st EXCEPT !.messages = Append(@, Msg("warning", f, max(columns_to_capture) + 1))]

\* mutant of after_scan: rows are appended to combined_data as they are
\* scanned, so the rows scanned before an exception stay in the result
after_scan_leaky(st, f, res) ==
    IF res.outcome = "raise"
    THEN on_exception([st EXCEPT !.combined_data = @ \o res.valid_records,
                                 !.origin = @ \o res.origin], f)
    ELSE extend(st, f, res)

\* lines 46-66 once the scan has ended: valid_records reaches combined_data
\* only when the loop finished without raising
after_scan(st, f, res) ==
    IF res.outcome = "raise"
    THEN on_exception(st, f)
    ELSE extend(st, f, res)

\* one iteration of the loop over uploaded_files, lines 28-66
process_file(st, file, f) ==
    IF ~file.readable
    THEN on_exception(st, f)
    ELSE LET df == skip_header(read_excel(file)) IN
         IF has_columns(df)
         THEN IF iloc_raises(df)
              THEN on_exception(st, f)
              ELSE after_scan(st, f,
                              scan(df, f, 1,
                                   [outcome |-> "end", at |-> 0,
                                    valid_records |-> <<>>, origin |-> <<>>]))
         ELSE too_few_columns(st, f)

RECURSIVE for_files(_, _, _)
for_files(st, files, f) ==
    IF f > Len(files)
    THEN st
    ELSE for_files(process_file(st, files[f], f), files, f + 1)

\* excel_to_json(uploaded_files): the returned list, with the messages shown
excel_to_json(files) ==
    for_files([combined_data |-> <<>>, origin |-> <<>>, messages |-> <<>>],
              files, 1)

----------------------------------------------------------------------------
(* Inputs of excel_to_json.                                                *)

Digit(c) == <<"0", "1", "2", "3", "4", "5", "6", "7", "8", "9", "a">>[c + 1]

Selected == {columns_to_capture[j] : j \in 1..Len(columns_to_capture)}

\* the cell in column c of row r, for each kind of row
CellOf(kind, c, r) ==
    CASE kind = "data" ->
            IF c = 2 THEN Text(<<"N", Digit(r)>>)
            ELSE IF c = 3 THEN NaN
            ELSE IF c = 4 THEN Text(<<" ", "S", Digit(c), " ">>)
            ELSE Text(<<"d", Digit(c)>>)
      [] kind = "nan" ->
            IF c \in Selected THEN NaN ELSE Text(<<"k", Digit(c)>>)
      [] kind = "blank" ->
            IF c \notin Selected THEN Text(<<"k", Digit(c)>>)
            ELSE IF c % 3 = 0 THEN Text(<<>>)
            ELSE IF c % 3 = 1 THEN Text(<<" ">>)
            ELSE Text(<<"\t", " ">>)
      [] kind = "mixed" ->
            IF c \notin Selected THEN Text(<<"k", Digit(c)>>)
            ELSE IF c % 2 = 0 THEN NaN ELSE Text(<<" ">>)
      [] kind = "poison" ->
            IF c = 5 THEN Unprintable ELSE Text(<<"p", Digit(c)>>)

RowOf(kind, ncols, r) == [c1 \in 1..ncols |-> CellOf(kind, c1 - 1, r)]

Kinds == {"data", "nan", "blank", "mixed", "poison"}
BodyKinds == {"data", "poison"}
ColumnCounts == {9, 10, 11}

\* all sequences over S of length at most n
SeqUpTo(S, n) == UNION {[1..k -> S] : k \in 0..n}

\* an uploaded workbook whose sheet has the rows of the given kinds
Workbook(kinds, ncols) ==
    [readable |-> TRUE,
     ncols    |-> IF kinds = <<>> THEN 0 ELSE ncols,
     rows     |-> [i \in 1..Len(kinds) |-> RowOf(kinds[i], ncols, i - 1)]]

\* a file pd.read_excel cannot read
Corrupt == [readable |-> FALSE, ncols |-> 0, rows |-> <<>>]

\* first family: one table, rows of every kind
OneTable ==
    {<<Workbook(k, n)>> : k \in SeqUpTo(Kinds, MaxRows), n \in ColumnCounts}
    \cup {<<Corrupt>>}

\* second family: several files; a table is two header rows and a body
BatchFile ==
    {Workbook(<<"data", "data">> \o b, 10) : b \in SeqUpTo(BodyKinds, MaxBodyRows)}
    \cup {Workbook([i \in 1..k |-> "data"], 9) : k \in 0..(MaxBodyRows + 2)}
    \cup {Corrupt}

Batch == SeqUpTo(BatchFile, MaxFiles)

----------------------------------------------------------------------------
(* rearrange_json_fields                                                   *)

field_order == <<"Full Name", "Email", "Phone Number", "School Name",
                 "Designation - Level", "Region", "District">>

\* key in record
has_key(record, key) == \E p \in 1..Len(record) : record[p][1] = key

\* record.get(key, default)
get(record, key, default) ==
    IF has_key(record, key)
    THEN record[CHOOSE p \in 1..Len(record) : record[p][1] = key][2]
    ELSE default

\* the items of record whose key is not in keys, in order
RECURSIVE other_items(_, _)
other_items(record, keys) ==
    IF record = <<>> THEN <<>>
    ELSE IF \E j \in 1..Len(keys) : keys[j] = Head(record)[1]
         THEN other_items(Tail(record), keys)
         ELSE <<Head(record)>> \o other_items(Tail(record), keys)

\* mutant of rearranged_record: the keys outside field_order are kept
rearranged_record_keeping_others(record) ==
    [j \in 1..Len(field_order) |->
        <<field_order[j], get(record, field_order[j], <<>>)>>]
    \o other_items(record, field_order)

\* line 86: {field: record.get(field, "") for field in field_order}
rearranged_record(record) ==
    [j \in 1..Len(field_order) |->
        <<field_order[j], get(record, field_order[j], <<>>)>>]

\* mutant of rearrange_json_fields: insert(0, ...) for append
rearrange_json_fields_reversed(data) ==
    [i \in 1..Len(data) |-> rearranged_record(data[Len(data) + 1 - i])]

\* lines 85-89: one rearranged record appended per input record
rearrange_json_fields(data) ==
    [i \in 1..Len(data) |-> rearranged_record(data[i])]

----------------------------------------------------------------------------
(* json_to_excel                                                           *)

\* the keys of a record that are not in columns yet, in the record's order
RECURSIVE new_keys(_, _)
new_keys(record, columns) ==
    IF record = <<>> THEN <<>>
    ELSE LET k == Head(record)[1] IN
         IF \E j \in 1..Len(columns) : columns[j] = k
         THEN new_keys(Tail(record), columns)
         ELSE <<k>> \o new_keys(Tail(record), Append(columns, k))

\* columns of pd.DataFrame(list of dicts): the keys in order of first
\* appearance across the records
RECURSIVE columns_of(_, _)
columns_of(data, columns) ==
    IF data = <<>> THEN columns
    ELSE columns_of(Tail(data), columns \o new_keys(Head(data), columns))

\* mutant of frame_columns: the columns are those of the first record only
frame_columns_of_first(data) ==
    IF data = <<>> THEN <<>> ELSE columns_of(<<Head(data)>>, <<>>)

frame_columns(data) == columns_of(data, <<>>)

\* line 96: df = pd.DataFrame(json_data); a missing key gives NaN
DataFrame(data) ==
    LET columns == frame_columns(data) IN
    [columns |-> columns,
     rows |-> [i \in 1..Len(data) |->
                  [j \in 1..Len(columns) |->
                      IF has_key(data[i], columns[j])
                      THEN Text(get(data[i], columns[j], <<>>))
                      ELSE NaN]]]

\* lines 99-100: df.to_excel(writer, sheet_name="Staff Data", index=False):
\* a header row, one row per frame row, NaN written as a blank cell
to_excel(df) ==
    [sheet_name |-> "Staff Data", header |-> df.columns, rows |-> df.rows]

\* no workbook written
NoSheet == [sheet_name |-> "", header |-> <<>>, rows |-> <<>>]

\* json_to_excel(json_data): the sheet written, and the argument after the call
json_to_excel(data) ==
    [output |-> to_excel(DataFrame(data)), json_data |-> data]

----------------------------------------------------------------------------
(* Inputs of rearrange_json_fields and json_to_excel.                      *)

\* the first letter of a key
Letter(key) ==
    CASE key = "Full Name" -> "F"
      [] key = "Email" -> "E"
      [] key = "Phone Number" -> "P"
      [] key = "School Name" -> "S"
      [] key = "Designation - Level" -> "L"
      [] key = "Region" -> "R"
      [] key = "District" -> "D"
      [] OTHER -> "X"

\* the value of a key in a record of variant v
ValueOf(key, v) == <<Letter(key), Digit(v)>>

KeyPool == {"Phone Number", "Email", "Extra"}
Variants == {1, 2}

\* a record with the given keys in the given order
RecordOf(keys, v) == [p \in 1..Len(keys) |-> <<keys[p], ValueOf(keys[p], v)>>]

\* sequences over S without repetition, of length at most n
InjSeqUpTo(S, n) ==
    {q \in SeqUpTo(S, n) : \A a, b \in 1..Len(q) : a # b => q[a] # q[b]}

\* records: partial ones with up to MaxKeys keys in any order, and the full
\* records in the order excel_to_json gives and in the rearranged order
Records ==
    {RecordOf(k, v) : k \in InjSeqUpTo(KeyPool, MaxKeys), v \in Variants}
    \cup {RecordOf(field_names, v) : v \in Variants}
    \cup {RecordOf(field_order, v) : v \in Variants}

RecordLists == SeqUpTo(Records, MaxRecords)

----------------------------------------------------------------------------
(* main: the Streamlit script.  Every interaction reruns it from the top   *)
(* with the widgets' values and at most one button pressed; session_state  *)
(* is what survives from one run to the next.                              *)

\* a slot of st.session_state, or a local that may be None
None == [set |-> FALSE, value |-> <<>>]
Some(v) == [set |-> TRUE, value |-> v]

\* Python truth of a list or None: "if json_data:"
truthy(x) == x.set /\ x.value # <<>>

UploadJson == "Upload JSON file"
UsePrevious == "Use previously converted JSON"

\* values of a JSON file uploader: no file, a file json.load rejects, or a
\* file holding a list of records
NoFile == [file |-> "none", data |-> <<>>]
Malformed == [file |-> "malformed", data |-> <<>>]
Parsed(data) == [file |-> "parsed", data |-> data]

\* mutant of store_converted: the result is saved even when it is empty
store_converted_always(session, data) ==
    [session EXCEPT !.json_data = Some(data)]

\* lines 139-161: st.session_state.json_data = combined_data, only inside
\* "if combined_data:"
store_converted(session, data) ==
    IF data # <<>>
    THEN [session EXCEPT !.json_data = Some(data)]
    ELSE session

\* lines 187-203 and 253-269: the local json_data of a tab
load_source(session, source, upload) ==
    IF source = UploadJson
    THEN IF upload.file = "parsed" THEN Some(upload.data) ELSE None
    ELSE IF session.json_data.set THEN session.json_data ELSE None

\* line 240: st.session_state.rearranged_data = rearranged_data
store_rearranged(session, data) ==
    [session EXCEPT !.rearranged_data = Some(data)]

\* one run of main() with the given widget values and button; button is
\* "none", "convert", "rearrange" or "to_excel"
Rerun(button, files, source2, upload2, source3, upload3) ==
    LET converting == files # <<>> /\ button = "convert"
        r == excel_to_json(files)
        session1 == IF converting
                    THEN store_converted(session_state, r.combined_data)
                    ELSE session_state
        local2 == load_source(session1, source2, upload2)
        rearranging == truthy(local2) /\ button = "rearrange"
        rearranged == rearrange_json_fields(local2.value)
        session2 == IF rearranging
                    THEN store_rearranged(session1, rearranged)
                    ELSE session1
        local3 == load_source(session2, source3, upload3)
        exporting == truthy(local3) /\ button = "to_excel"
    IN /\ uploaded_files' = files
       /\ json_source_rearrange' = source2
       /\ upload_json_rearrange' = upload2
       /\ json_source_excel' = source3
       /\ upload_json_excel' = upload3
       /\ combined_data' = IF converting THEN r.combined_data ELSE <<>>
       /\ origin' = IF converting THEN r.origin ELSE <<>>
       /\ messages' = IF converting THEN r.messages ELSE <<>>
       /\ last_converted' = IF converting /\ Len(r.combined_data) >= 1
                            THEN Some(r.combined_data)
                            ELSE last_converted
       /\ tab2_json_data' = local2
       /\ rearranged_data' = IF rearranging THEN rearranged ELSE <<>>
       /\ tab3_json_data' = local3
       /\ excel_data' = IF rearranging THEN json_to_excel(rearranged).output
                        ELSE IF exporting THEN json_to_excel(local3.value).output
                        ELSE NoSheet
       /\ session_state' = session2
       /\ phase' = button
       /\ UNCHANGED <<json_data, again>>

\* what the user can upload in the shell
OneRecordTable == Workbook(<<"data", "data", "data">>, 10)
TwoRecordTable == Workbook(<<"data", "data", "data", "data">>, 10)
ShortTable == Workbook(<<"data", "data", "data">>, 9)

ExcelUploads == {<<>>, <<OneRecordTable>>, <<TwoRecordTable, ShortTable>>,
                 <<ShortTable>>, <<Corrupt>>}

JsonUploads ==
    {NoFile, Malformed, Parsed(<<>>),
     Parsed(<<RecordOf(<<"Phone Number", "Extra">>, 1)>>)}

ShellIdle ==
    /\ session_state = [json_data |-> None, rearranged_data |-> None]
    /\ last_converted = None
    /\ json_source_rearrange = UploadJson
    /\ json_source_excel = UploadJson
    /\ upload_json_rearrange = NoFile
    /\ upload_json_excel = NoFile
    /\ tab2_json_data = None
    /\ tab3_json_data = None

----------------------------------------------------------------------------
(* Specifications: one call of each function on each input.                *)

ExtractIdle ==
    /\ uploaded_files = <<>>
    /\ combined_data = <<>>
    /\ origin = <<>>
    /\ messages = <<>>

RecordIdle ==
    /\ json_data = <<>>
    /\ rearranged_data = <<>>
    /\ again = <<>>
    /\ excel_data = NoSheet

InitExtract ==
    /\ phase = "ready"
    /\ uploaded_files \in OneTable \cup Batch
    /\ combined_data = <<>>
    /\ origin = <<>>
    /\ messages = <<>>
    /\ RecordIdle
    /\ ShellIdle

CallExcelToJson ==
    /\ phase = "ready"
    /\ LET r == excel_to_json(uploaded_files) IN
          /\ combined_data' = r.combined_data
          /\ origin' = r.origin
          /\ messages' = r.messages
    /\ phase' = "returned"
    /\ UNCHANGED <<uploaded_files, recordVars, shellVars>>

NextExtract == CallExcelToJson

SpecExtract == InitExtract /\ [][NextExtract]_vars

InitRecords ==
    /\ phase = "ready"
    /\ json_data \in RecordLists
    /\ rearranged_data = <<>>
    /\ again = <<>>
    /\ excel_data = NoSheet
    /\ ExtractIdle
    /\ ShellIdle

CallRearrange ==
    /\ phase = "ready"
    /\ rearranged_data' = rearrange_json_fields(json_data)
    /\ phase' = "rearranged"
    /\ UNCHANGED <<json_data, again, excel_data, extractVars, shellVars>>

CallRearrangeAgain ==
    /\ phase = "rearranged"
    /\ again' = rearrange_json_fields(rearranged_data)
    /\ phase' = "rearranged twice"
    /\ UNCHANGED <<json_data, rearranged_data, excel_data, extractVars, shellVars>>

CallJsonToExcel ==
    /\ phase = "ready"
    /\ LET r == json_to_excel(json_data) IN
          /\ excel_data' = r.output
          /\ json_data' = r.json_data
    /\ phase' = "written"
    /\ UNCHANGED <<rearranged_data, again, extractVars, shellVars>>

NextReorder == CallRearrange \/ CallRearrangeAgain

SpecReorder == InitRecords /\ [][NextReorder]_vars

NextSerialize == CallJsonToExcel

SpecSerialize == InitRecords /\ [][NextSerialize]_vars

\* the first run of main(): nothing uploaded, session_state empty, both
\* radios on their first option (index 0: json_data is not in session_state)
InitShell ==
    /\ phase = "none"
    /\ ExtractIdle
    /\ RecordIdle
    /\ ShellIdle

\* the user picks the Excel files
SelectExcelFiles ==
    \E files \in ExcelUploads :
        /\ files # uploaded_files
        /\ Rerun("none", files, json_source_rearrange, upload_json_rearrange,
                 json_source_excel, upload_json_excel)

\* the user turns a radio; an uploader that is no longer drawn loses its file
ChooseSourceRearrange ==
    \E source \in {UploadJson, UsePrevious} :
        /\ source # json_source_rearrange
        /\ Rerun("none", uploaded_files, source, NoFile,
                 json_source_excel, upload_json_excel)

ChooseSourceExcel ==
    \E source \in {UploadJson, UsePrevious} :
        /\ source # json_source_excel
        /\ Rerun("none", uploaded_files, json_source_rearrange,
                 upload_json_rearrange, source, NoFile)

\* the user gives a JSON file to an uploader that is drawn
UploadJsonRearrange ==
    \E upload \in JsonUploads :
        /\ json_source_rearrange = UploadJson
        /\ upload # upload_json_rearrange
        /\ Rerun("none", uploaded_files, json_source_rearrange, upload,
                 json_source_excel, upload_json_excel)

UploadJsonExcel ==
    \E upload \in JsonUploads :
        /\ json_source_excel = UploadJson
        /\ upload # upload_json_excel
        /\ Rerun("none", uploaded_files, json_source_rearrange,
                 upload_json_rearrange, json_source_excel, upload)

\* the buttons; each is drawn only under the condition main() tests
ClickConvertToJson ==
    /\ uploaded_files # <<>>
    /\ Rerun("convert", uploaded_files, json_source_rearrange,
             upload_json_rearrange, json_source_excel, upload_json_excel)

ClickRearrangeJson ==
    /\ truthy(tab2_json_data)
    /\ Rerun("rearrange", uploaded_files, json_source_rearrange,
             upload_json_rearrange, json_source_excel, upload_json_excel)

ClickConvertToExcel ==
    /\ truthy(tab3_json_data)
    /\ Rerun("to_excel", uploaded_files, json_source_rearrange,
             upload_json_rearrange, json_source_excel, upload_json_excel)

NextShell ==
    \/ SelectExcelFiles
    \/ ChooseSourceRearrange
    \/ ChooseSourceExcel
    \/ UploadJsonRearrange
    \/ UploadJsonExcel
    \/ ClickConvertToJson
    \/ ClickRearrangeJson
    \/ ClickConvertToExcel

SpecShell == InitShell /\ [][NextShell]_vars

----------------------------------------------------------------------------
(* Vocabulary of the properties of excel_to_json.                          *)

Returned == phase = "returned"

Files == 1..Len(uploaded_files)

\* positions of combined_data that come from file f
FromFile(f) == {i \in 1..Len(origin) : origin[i][1] = f}

\* the row of file f with label r, as the sheet holds it
SheetRow(f, r) == uploaded_files[f].rows[r + 1]

\* a cell that is null/missing, or text that is empty once trimmed
BlankCell(cell) ==
    cell.na \/ (~cell.bad /\ \A k \in 1..Len(cell.s) : cell.s[k] \in Whitespace)

\* a row whose 7 selected cells (columns 2,3,4,5,7,8,9) are all blank cells
EmptyRow(row) ==
    \A c \in {2, 3, 4, 5, 7, 8, 9} : BlankCell(row[c + 1])

\* a row that is not empty and whose scan does not raise: some selected
\* cell holds text that is not blank, and none holds an unprintable value
HasText(row) ==
    /\ \E c \in {2, 3, 4, 5, 7, 8, 9} : ~BlankCell(row[c + 1])
    /\ \A c \in {2, 3, 4, 5, 7, 8, 9} : ~row[c + 1].bad

\* a table the scan is run on: read without error, with at least 10 columns
Scanned(f) == uploaded_files[f].readable /\ uploaded_files[f].ncols >= 10

\* label of the first row the scan looks at
FirstScanned(f) == IF Len(uploaded_files[f].rows) > 2 THEN 2 ELSE 0

LastRow(f) == Len(uploaded_files[f].rows) - 1

\* the messages shown for file f, in order
MessagesOf(f) ==
    LET F[i \in 0..Len(messages)] ==
            IF i = 0 THEN <<>>
            ELSE IF messages[i].file = f THEN Append(F[i - 1], messages[i].level)
            ELSE F[i - 1]
    IN F[Len(messages)]

\* every file of the list was handled: it ends in exactly one outcome
AllHandled ==
    \A f \in Files :
        LET m == MessagesOf(f) IN
        /\ m # <<>>
        /\ m[Len(m)] \in {"success", "warning", "error"}

\* the list without its tables of fewer than 10 columns
RECURSIVE WithoutShort(_)
WithoutShort(files) ==
    IF files = <<>> THEN <<>>
    ELSE IF Head(files).readable /\ Head(files).ncols < 10
         THEN WithoutShort(Tail(files))
         ELSE <<Head(files)>> \o WithoutShort(Tail(files))

Short(f) == uploaded_files[f].readable /\ uploaded_files[f].ncols < 10

----------------------------------------------------------------------------
(* Properties of excel_to_json.                                            *)

\* C1: for every table with at least 2 rows and at least 10 columns, no
\* record of the returned list is derived from row 0 or row 1.
C1_NoHeaderRecords ==
    Returned =>
        \A f \in Files :
            (Scanned(f) /\ Len(uploaded_files[f].rows) >= 2) =>
                \A i \in FromFile(f) : origin[i][2] >= 2

\* C2: a table with fewer than 10 columns contributes no record and gets a
\* warning (and nothing else), every file of the list is still handled, and
\* the result is the one the list without the short tables gives.
C2_ShortTableSkipped ==
    Returned =>
        /\ \A f \in Files :
               Short(f) => /\ FromFile(f) = {}
                           /\ MessagesOf(f) = <<"warning">>
        /\ AllHandled
        /\ combined_data = excel_to_json(WithoutShort(uploaded_files)).combined_data

\* C2 witness: a valid table with 3 data records followed by a 9-column
\* table gives exactly 3 records.
C2_Witness ==
    /\ Returned
    /\ Len(uploaded_files) = 2
    /\ Scanned(1) /\ Cardinality(FromFile(1)) = 3
    /\ Short(2) /\ uploaded_files[2].ncols = 9
    /\ Len(combined_data) = 3

\* C3: once the scan of a table reaches its first empty row, no row at or
\* after it contributes a record, and every row before it (from the first
\* scanned row on) contributes exactly one record.
C3_StopsAtFirstEmptyRow ==
    Returned =>
        \A f \in Files : \A e \in FirstScanned(f)..LastRow(f) :
            ( /\ Scanned(f)
              /\ EmptyRow(SheetRow(f, e))
              /\ \A r \in FirstScanned(f)..(e - 1) : HasText(SheetRow(f, r)) )
            => /\ \A i \in FromFile(f) : origin[i][2] < e
               /\ \A r \in FirstScanned(f)..(e - 1) :
                      Cardinality({i \in FromFile(f) : origin[i][2] = r}) = 1

\* C4: a scanned row whose 7 selected cells are each null or blank text is
\* treated as empty, whatever the combination: it gives no record and
\* neither does any row after it.
C4_EveryBlankCombinationIsEmpty ==
    Returned =>
        \A f \in Files : \A e \in FirstScanned(f)..LastRow(f) :
            (Scanned(f) /\ EmptyRow(SheetRow(f, e)))
            => \A i \in FromFile(f) : origin[i][2] < e

\* C5: a file whose processing raises is reported as an error, adds no row
\* to the result (the rows scanned before the exception included), and the
\* files after it are handled.
RaisesInScan(f) ==
    /\ Scanned(f)
    /\ \E x \in FirstScanned(f)..LastRow(f) :
          /\ \E c \in {2, 3, 4, 5, 7, 8, 9} : SheetRow(f, x)[c + 1].bad
          /\ \A r \in FirstScanned(f)..(x - 1) : HasText(SheetRow(f, r))

C5_FailureIsolated ==
    Returned =>
        /\ \A f \in Files :
               (~uploaded_files[f].readable \/ RaisesInScan(f))
               => MessagesOf(f) = <<"error", "error">>
        /\ \A f \in Files :
               (\E k \in 1..Len(MessagesOf(f)) : MessagesOf(f)[k] = "error")
               => FromFile(f) = {}
        /\ AllHandled

\* C5 witness: a file raises after a row was scanned, between two files
\* that give records.
C5_Witness ==
    /\ Returned
    /\ \E f \in Files :
          /\ RaisesInScan(f)
          /\ HasText(SheetRow(f, FirstScanned(f)))
          /\ \E g \in Files : g > f /\ FromFile(g) # {}

\* C6: the returned list is the per-table record lists put one after the
\* other in file order, each in row order: the origins of its records are
\* strictly increasing in (file, row), and each record is the dict of the
\* row it comes from.
C6_ConcatenationInOrder ==
    Returned =>
        /\ Len(origin) = Len(combined_data)
        /\ \A i \in 1..Len(origin) :
              /\ origin[i][1] \in Files
              /\ origin[i][2] \in 0..LastRow(origin[i][1])
              /\ combined_data[i] =
                     to_dict(selected(SheetRow(origin[i][1], origin[i][2])))
        /\ \A i, j \in 1..Len(origin) :
              i < j => \/ origin[i][1] < origin[j][1]
                       \/ /\ origin[i][1] = origin[j][1]
                          /\ origin[i][2] < origin[j][2]

\* C6 witness: two tables, each giving at least two records.
C6_Witness ==
    /\ Returned
    /\ Len(uploaded_files) >= 2
    /\ Cardinality(FromFile(1)) >= 2
    /\ Cardinality(FromFile(2)) >= 2

----------------------------------------------------------------------------
(* Properties of rearrange_json_fields and json_to_excel.                  *)

TargetOrder == <<"Full Name", "Email", "Phone Number", "School Name",
                 "Designation - Level", "Region", "District">>

\* positions of record that hold key
PositionsOf(record, key) == {p \in 1..Len(record) : record[p][1] = key}

\* C7: the rearranged list has the length and order of the input, and its
\* i-th record has exactly the 7 target keys in the target order, each with
\* the i-th input record's value for the key, or the empty text when the
\* input record lacks the key; other keys are dropped.
C7_RearrangedRecords ==
    phase = "rearranged" =>
        /\ Len(rearranged_data) = Len(json_data)
        /\ \A i \in 1..Len(json_data) :
              /\ Len(rearranged_data[i]) = 7
              /\ \A j \in 1..7 :
                    /\ rearranged_data[i][j][1] = TargetOrder[j]
                    /\ \/ /\ PositionsOf(json_data[i], TargetOrder[j]) = {}
                          /\ rearranged_data[i][j][2] = <<>>
                       \/ \E p \in PositionsOf(json_data[i], TargetOrder[j]) :
                              rearranged_data[i][j][2] = json_data[i][p][2]

\* C7 witness: two different records, one partial with a key outside the
\* target order, were rearranged.
C7_Witness ==
    /\ phase = "rearranged"
    /\ Len(json_data) = 2
    /\ rearranged_data[1] # rearranged_data[2]
    /\ PositionsOf(json_data[1], "Extra") # {}
    /\ PositionsOf(json_data[1], "Email") = {}
    /\ PositionsOf(json_data[1], "Phone Number") # {}

\* C8: rearranging the rearranged list gives the rearranged list again.
C8_RearrangeIdempotent ==
    phase = "rearranged twice" => again = rearranged_data

\* C8 witness: a list of two records that rearrange differently, the first
\* in the extractor's order, was rearranged twice.
C8_Witness ==
    /\ phase = "rearranged twice"
    /\ Len(json_data) = 2
    /\ rearranged_data[1] # rearranged_data[2]
    /\ json_data[1] # rearranged_data[1]
    /\ Len(json_data[1]) = 7

\* the first place a key occurs in a list of records: <<record, position>>
FirstPlace(data, key) ==
    LET i == CHOOSE i \in 1..Len(data) :
                 /\ PositionsOf(data[i], key) # {}
                 /\ \A i2 \in 1..(i - 1) : PositionsOf(data[i2], key) = {}
        p == CHOOSE p \in PositionsOf(data[i], key) : TRUE
    IN <<i, p>>

AllKeys(data) ==
    UNION {{data[i][p][1] : p \in 1..Len(data[i])} : i \in 1..Len(data)}

C9_Sheet ==
    phase = "written" =>
        LET h == excel_data.header IN
        /\ {h[j] : j \in 1..Len(h)} = AllKeys(json_data)
        /\ \A a, b \in 1..Len(h) :
              a < b =>
                  LET fa == FirstPlace(json_data, h[a])
                      fb == FirstPlace(json_data, h[b])
                  IN \/ fa[1] < fb[1]
                     \/ fa[1] = fb[1] /\ fa[2] < fb[2]
        /\ Len(excel_data.rows) = Len(json_data)
        /\ \A i \in 1..Len(json_data) :
              /\ Len(excel_data.rows[i]) = Len(h)
              /\ \A j \in 1..Len(h) :
                    \/ /\ PositionsOf(json_data[i], h[j]) = {}
                       /\ excel_data.rows[i][j].na
                    \/ \E p \in PositionsOf(json_data[i], h[j]) :
                           /\ ~excel_data.rows[i][j].na
                           /\ excel_data.rows[i][j].s = json_data[i][p][2]

\* C9: the sheet's header is the union of the records' keys in order of
\* first appearance, it has one row per record in record order with a blank
\* cell where the record lacks the key, and the call leaves its argument
\* as it was.
C9_SheetOfRecords ==
    /\ []C9_Sheet
    /\ [][(phase = "ready" /\ phase' = "written") => json_data' = json_data]_vars

\* C9 witness: two records with different key sets, the second bringing a
\* new key and lacking one of the first, were written.
C9_Witness ==
    /\ phase = "written"
    /\ Len(json_data) = 2
    /\ \E k \in AllKeys(json_data) :
          PositionsOf(json_data[1], k) = {} /\ PositionsOf(json_data[2], k) # {}
    /\ \E k \in AllKeys(json_data) :
          PositionsOf(json_data[1], k) # {} /\ PositionsOf(json_data[2], k) = {}
    /\ Len(excel_data.rows) = 2

----------------------------------------------------------------------------
(* Property of the session state of main.                                  *)

\* C10: the slot json_data is unset until a conversion gives records, and
\* then holds the result of the most recent conversion that gave at least
\* one record, whatever else was done since; a tab whose source is
\* 'Use previously converted JSON' works on json_data (on nothing when it
\* is unset), never on the stored rearranged_data.
C10_SessionJsonData ==
    /\ session_state.json_data = last_converted
    /\ session_state.json_data.set => Len(session_state.json_data.value) >= 1
    /\ json_source_rearrange = UsePrevious
           => tab2_json_data = session_state.json_data
    /\ json_source_excel = UsePrevious
           => tab3_json_data = session_state.json_data

\* C10 witness: with json_data and a different rearranged_data stored, and
\* both tabs on the previous JSON, a conversion has just returned no record.
C10_Witness ==
    /\ phase = "convert"
    /\ uploaded_files # <<>>
    /\ combined_data = <<>>
    /\ session_state.json_data.set
    /\ session_state.rearranged_data.set
    /\ session_state.rearranged_data.value # session_state.json_data.value
    /\ json_source_rearrange = UsePrevious
    /\ json_source_excel = UsePrevious
    /\ tab3_json_data.value = session_state.json_data.value

====
